---- MODULE Spec2Model ----
(***************************************************************************)
(* Model of the execution controller declared in src/src/core.hpp:         *)
(*   - core::chkptOp::should_checkpoint, the checkpoint policy with its    *)
(*     boost::mpi::all_reduce consensus, run by NumProcs MPI ranks;        *)
(*   - core::hpc_scheduler_info, the wall-clock budget detector;           *)
(*   - core::output_info::should_output, the output trigger evaluation;    *)
(*   - core::_determine_module_dep / core::_schedule_modules / core::run,  *)
(*     which core.hpp only declares: they are modelled from spec.md.       *)
(***************************************************************************)
EXTENDS Integers, Sequences, FiniteSets, TLC

\* ----------------------------------------------------------------------
\* Bounds of the model
\* ----------------------------------------------------------------------
\* number of MPI ranks of comm_world
NumProcs == 2
\* largest current_ts handed to should_checkpoint by the call harness
MaxTs == 2
\* largest checkpoint frequency configured (0 included: an engaged optional<size_t>)
MaxFreq == 2
\* CHM_WALLCLOCK_LIMIT value, in minutes, when it is well-formed
MaxWall == 3
\* largest reading of second_clock::local_time() - wallclock_start, in minutes
MaxClock == 2
\* number of timesteps of a run of the driver (timesteps 0 .. MaxTimesteps - 1)
MaxTimesteps == 10
\* largest checkpoint frequency configured for a run of the driver
MaxRunFreq == 4
\* number of configured modules
NumModules == 3
\* width of size_t in the model, in bits
SizeBits == 8
\* largest of the small timestep numbers handed to should_output
MaxOutTs == 3
\* largest output frequency configured
MaxOutFreq == 2

Procs == 1..NumProcs

\* ----------------------------------------------------------------------
\* boost::optional<T>
\* ----------------------------------------------------------------------
NoBool == [engaged |-> FALSE, value |-> FALSE]
SomeBool(b) == [engaged |-> TRUE, value |-> b]
OptBool == {NoBool} \cup {SomeBool(b) : b \in BOOLEAN}
NoSize == [engaged |-> FALSE, value |-> 0]
SomeSize(n) == [engaged |-> TRUE, value |-> n]
OptFrequency == {NoSize} \cup {SomeSize(n) : n \in 0..MaxFreq}

\* ----------------------------------------------------------------------
\* State
\* ----------------------------------------------------------------------
VARIABLES
    env,                          \* per rank: the CHM_WALLCLOCK_LIMIT environment variable
    scheduler_info,               \* per rank: hpc_scheduler_info
    checkpoint_opts,              \* chkptOp's options (same configuration on every rank)
    checkpoint_request_terminate, \* per rank: chkptOp::checkpoint_request_terminate
    pc,                           \* per rank: position of the rank
    args,                         \* arguments of the should_checkpoint call in progress
    outoftime,                    \* per rank: local int outoftime of should_checkpoint
    global_outoftime,             \* per rank: local int global_outoftime of should_checkpoint
    ret,                          \* per rank: value returned by the last should_checkpoint
    collectives,                  \* per rank: all_reduce calls completed in the current call
    max_ts,                       \* driver: number of timesteps of the run
    current_ts,                   \* driver: index of the timestep being executed
    checkpoints,                  \* per rank: timesteps at which the rank wrote a checkpoint
    module_inputs,                \* configuration: per module, the variables it requires
    graph,                        \* per execution: edges <<producer, consumer>> of the module graph
    chunked_modules,              \* per execution: core::_chunked_modules
    core_state,                   \* per execution: how far initialisation has come
    output,                       \* an output_info descriptor: its four optional triggers
    out_args,                     \* arguments of the last should_output call
    out_state,                    \* "constructed", "idle", "returned" or "trapped"
    out_ret,                      \* value returned by the last should_output call
    job_ids,                      \* which of SLURM_JOB_ID and PBS_JOBID the job's environment sets
    elapsed,                      \* driver: minutes on the clock since the detection
    threshold_reached,            \* history: a rank was out of time at a timestep before the last
    shutdown                      \* per rank: clean_exit, whether core::end ran, the sentinel file

chk_vars == <<env, scheduler_info, checkpoint_opts, checkpoint_request_terminate,
              pc, args, outoftime, global_outoftime, ret, collectives>>

run_vars == <<max_ts, current_ts, checkpoints>>

chk_vars_but_pc == <<env, scheduler_info, checkpoint_opts, checkpoint_request_terminate,
                     args, outoftime, global_outoftime, ret, collectives>>

sched_vars == <<module_inputs, graph, chunked_modules, core_state>>

out_vars == <<output, out_args, out_state, out_ret>>

life_vars == <<job_ids, elapsed, threshold_reached, shutdown>>

vars == <<chk_vars, run_vars, sched_vars, out_vars, life_vars>>

\* the job's environment and the life cycle of the run in a program that has not started
LifeIdle ==
    /\ job_ids = [SLURM_JOB_ID |-> FALSE, PBS_JOBID |-> FALSE]
    /\ elapsed = 0
    /\ threshold_reached = FALSE
    /\ shutdown = [p \in Procs |-> [clean_exit |-> FALSE, ended |-> FALSE, sentinel |-> FALSE]]

\* ----------------------------------------------------------------------
\* hpc_scheduler_info
\* ----------------------------------------------------------------------
\* values of getenv("CHM_WALLCLOCK_LIMIT"): unset, not a duration, or a duration in minutes
EnvUnset == [kind |-> "unset", minutes |-> 0]
EnvMalformed == [kind |-> "malformed", minutes |-> 0]
EnvDuration(m) == [kind |-> "duration", minutes |-> m]
EnvValues == {EnvUnset, EnvMalformed} \cup {EnvDuration(m) : m \in (MaxWall - 1)..MaxWall}

\* hpc_scheduler_info::hpc_scheduler_info()
hpc_scheduler_info == [max_wallclock |-> 0, wallclock_start |-> 0, has_wallclock_limit |-> FALSE]

\* hpc_scheduler_info::wallclock_remaining(), local_time being the clock reading
wallclock_remaining(si, local_time) == si.max_wallclock - (local_time - si.wallclock_start)

\* chkptOp::chkptOp(): abort_when_wallclock_left = boost::posix_time::minutes(2)
abort_when_wallclock_left == 2

\* the job's environment: which of SLURM_JOB_ID and PBS_JOBID the scheduler has set
JobIds == [SLURM_JOB_ID : BOOLEAN, PBS_JOBID : BOOLEAN]

\* mutation of detect_result: has_wallclock_limit is assigned before the duration is parsed
detect_result_limit_first(e, ids, si) ==
    CASE e.kind = "unset" -> [pc |-> "ready", info |-> si]
      [] e.kind = "duration" ->
            [pc |-> "ready", info |-> [max_wallclock |-> e.minutes, wallclock_start |-> 0,
                                       has_wallclock_limit |-> TRUE]]
      [] OTHER -> [pc |-> "config_error", info |-> [si EXCEPT !.has_wallclock_limit = TRUE]]

\* mutation of detect_result: a SLURM job without the override is given a limit
detect_result_slurm_limit(e, ids, si) ==
    CASE e.kind = "unset" ->
            [pc |-> "ready", info |-> [si EXCEPT !.has_wallclock_limit = ids.SLURM_JOB_ID]]
      [] e.kind = "duration" ->
            [pc |-> "ready", info |-> [max_wallclock |-> e.minutes, wallclock_start |-> 0,
                                       has_wallclock_limit |-> TRUE]]
      [] OTHER -> [pc |-> "config_error", info |-> si]

\* hpc_scheduler_info::detect(): where the rank stands after it and the detector's fields,
\* for the override e, the job ids and the detector si. SLURM_JOB_ID and PBS_JOBID are
\* only logged. A malformed override makes duration_from_string throw before anything
\* is assigned, and the handler throws chm_error.
detect_result(e, ids, si) ==
    CASE e.kind = "unset" -> [pc |-> "ready", info |-> si]
      [] e.kind = "duration" ->
            [pc |-> "ready", info |-> [max_wallclock |-> e.minutes, wallclock_start |-> 0,
                                       has_wallclock_limit |-> TRUE]]
      [] OTHER -> [pc |-> "config_error", info |-> si]

\* hpc_scheduler_info::detect() on rank p; the model's clock starts at the detection
detect(p) ==
    /\ pc[p] = "init"
    /\ LET r == detect_result(env[p], job_ids, scheduler_info[p])
       IN  /\ pc' = [pc EXCEPT ![p] = r.pc]
           /\ scheduler_info' = [scheduler_info EXCEPT ![p] = r.info]
    /\ UNCHANGED <<env, checkpoint_opts, checkpoint_request_terminate, args,
                   outoftime, global_outoftime, ret, collectives, run_vars, sched_vars,
                   out_vars, life_vars>>

\* ----------------------------------------------------------------------
\* chkptOp::should_checkpoint
\* ----------------------------------------------------------------------
\* chkptOp::chkptOp(): the options after construction
chkptOp == [do_checkpoint |-> FALSE, on_last |-> SomeBool(FALSE),
            frequency |-> NoSize, on_outta_time |-> NoBool]

\* the configurations config_checkpoint can leave in the public option fields
CheckpointOptions == [do_checkpoint : BOOLEAN, on_last : OptBool,
                      frequency : OptFrequency, on_outta_time : OptBool]

\* mutation of checkpoint_disabled: the negation left out
checkpoint_disabled_inverted(o) == o.do_checkpoint

\* if(!do_checkpoint)
checkpoint_disabled(o) == ~o.do_checkpoint

\* mutation of on_last_rule: the is_last_ts test inverted
on_last_rule_inverted(o, is_last_ts) == o.on_last.engaged /\ o.on_last.value /\ ~is_last_ts

\* if(on_last && *on_last && is_last_ts)
on_last_rule(o, is_last_ts) == o.on_last.engaged /\ o.on_last.value /\ is_last_ts

\* mutation of frequency_rule: the comparison of the remainder with 0 left out
frequency_rule_remainder(o, ts) ==
    IF ~o.frequency.engaged \/ ts = 0 THEN {"skip"}
    ELSE IF o.frequency.value = 0 THEN {"skip", "trap"}
    ELSE IF ts % o.frequency.value # 0 THEN {"fire"}
    ELSE {"skip"}

\* mutation of frequency_rule: the current_ts != 0 test left out
frequency_rule_at_zero(o, ts) ==
    IF ~o.frequency.engaged THEN {"skip"}
    ELSE IF o.frequency.value = 0 THEN {"skip", "trap"}
    ELSE IF ts % o.frequency.value = 0 THEN {"fire"}
    ELSE {"skip"}

\* if( frequency && current_ts !=0 && (current_ts % *frequency ==0) ): the outcomes of
\* the test. current_ts % 0 is undefined behaviour; the outcomes a build produces are
\* a trap on the division (x86) or a remainder equal to the non-zero dividend (ARM,
\* RISC-V), which skips the rule.
frequency_rule(o, ts) ==
    IF ~o.frequency.engaged \/ ts = 0 THEN {"skip"}
    ELSE IF o.frequency.value = 0 THEN {"skip", "trap"}
    ELSE IF ts % o.frequency.value = 0 THEN {"fire"}
    ELSE {"skip"}

\* if(on_outta_time && *on_outta_time && scheduler_info.has_wallclock_limit)
outta_time_rule(o, si) == o.on_outta_time.engaged /\ o.on_outta_time.value /\ si.has_wallclock_limit

\* int outoftime = scheduler_info.wallclock_remaining() <= abort_when_wallclock_left
local_outoftime(si, local_time) ==
    IF wallclock_remaining(si, local_time) <= abort_when_wallclock_left THEN 1 ELSE 0

Max(S) == CHOOSE x \in S : \A y \in S : y <= x

\* mutation of all_reduce_maximum: the reduction takes the minimum
all_reduce_minimum(contrib) == CHOOSE x \in {contrib[q] : q \in Procs} :
                                   \A q \in Procs : x <= contrib[q]

\* boost::mpi::all_reduce(comm_world, outoftime, global_outoftime, boost::mpi::maximum<int>())
all_reduce_maximum(contrib) == Max({contrib[q] : q \in Procs})

\* mutation of request_terminate: the flag is assigned the combined result
request_terminate_assigned(flag, global) == global # 0

\* if(global_outoftime) checkpoint_request_terminate = true;
request_terminate(flag, global) == IF global # 0 THEN TRUE ELSE flag

\* a rank returns b from should_checkpoint
Return(p, b) ==
    /\ pc' = [pc EXCEPT ![p] = "returned"]
    /\ ret' = [ret EXCEPT ![p] = b]

\* should_checkpoint on rank p, from its entry to its return or to the point where it
\* blocks in all_reduce, second_clock::local_time() reading one of the given minutes
should_checkpoint_at(p, readings) ==
    /\ pc[p] = "called"
    /\ LET o == checkpoint_opts
           si == scheduler_info[p]
       IN  IF checkpoint_disabled(o)
           THEN Return(p, FALSE) /\ UNCHANGED outoftime
           ELSE IF on_last_rule(o, args.is_last_ts)
           THEN Return(p, TRUE) /\ UNCHANGED outoftime
           ELSE \E f \in frequency_rule(o, args.current_ts) :
                CASE f = "fire" -> Return(p, TRUE) /\ UNCHANGED outoftime
                  [] f = "trap" -> /\ pc' = [pc EXCEPT ![p] = "trapped"]
                                   /\ UNCHANGED <<ret, outoftime>>
                  [] OTHER ->
                       IF outta_time_rule(o, si)
                       THEN \E local_time \in readings :
                              /\ outoftime' = [outoftime EXCEPT ![p] = local_outoftime(si, local_time)]
                              /\ pc' = [pc EXCEPT ![p] = "all_reduce"]
                              /\ UNCHANGED ret
                       ELSE Return(p, FALSE) /\ UNCHANGED outoftime
    /\ UNCHANGED <<env, scheduler_info, checkpoint_opts, checkpoint_request_terminate,
                   args, global_outoftime, collectives, run_vars, sched_vars, out_vars,
                   life_vars>>

\* should_checkpoint on rank p, whatever the clock reads
should_checkpoint(p) == should_checkpoint_at(p, 0..MaxClock)

\* the all_reduce completes once every rank of comm_world has entered it; every rank
\* then runs the rest of should_checkpoint
all_reduce ==
    /\ \A p \in Procs : pc[p] = "all_reduce"
    /\ LET g == all_reduce_maximum(outoftime)
       IN  /\ global_outoftime' = [p \in Procs |-> g]
           /\ checkpoint_request_terminate' =
                  [p \in Procs |-> request_terminate(checkpoint_request_terminate[p], g)]
           /\ ret' = [p \in Procs |-> g # 0]
    /\ collectives' = [p \in Procs |-> collectives[p] + 1]
    /\ pc' = [p \in Procs |-> "returned"]
    /\ UNCHANGED <<env, scheduler_info, checkpoint_opts, args, outoftime, run_vars,
                   sched_vars, out_vars, life_vars>>

\* every rank calls should_checkpoint(current_ts, is_last_ts, ...) for the same timestep
call_should_checkpoint ==
    /\ \A p \in Procs : pc[p] \in {"ready", "returned"}
    /\ \E ts \in 0..MaxTs, last \in BOOLEAN :
          args' = [current_ts |-> ts, is_last_ts |-> last]
    /\ pc' = [p \in Procs |-> "called"]
    /\ outoftime' = [p \in Procs |-> 0]
    /\ global_outoftime' = [p \in Procs |-> -1]
    /\ collectives' = [p \in Procs |-> 0]
    /\ UNCHANGED <<env, scheduler_info, checkpoint_opts, checkpoint_request_terminate, ret,
                   run_vars, sched_vars, out_vars, life_vars>>

\* ----------------------------------------------------------------------
\* core::output_info
\* ----------------------------------------------------------------------
\* size_t arithmetic, modulo 2^SizeBits
SizeMod == 2 ^ SizeBits
SIZE_MAX == SizeMod - 1
size_sub(a, b) == (a - b + SizeMod) % SizeMod

\* boost::posix_time::ptime, to the minute
Dates == [day : 1..2, hours : 0..1, minutes : 0..1]
NoDate == [engaged |-> FALSE, value |-> [day |-> 0, hours |-> 0, minutes |-> 0]]
SomeDate(d) == [engaged |-> TRUE, value |-> d]
\* the dates configured as specific_time or specific_datetime
ConfiguredDates == {NoDate, SomeDate([day |-> 1, hours |-> 0, minutes |-> 1]),
                            SomeDate([day |-> 2, hours |-> 1, minutes |-> 1])}

\* mutation of output_info: only_last_n left empty like the other triggers
output_info_all_empty == [only_last_n |-> NoSize, frequency |-> NoSize,
                          specific_time |-> NoDate, specific_datetime |-> NoDate]

\* output_info::output_info(): only_last_n{SIZE_MAX}, the other triggers empty
output_info == [only_last_n |-> SomeSize(SIZE_MAX), frequency |-> NoSize,
                specific_time |-> NoDate, specific_datetime |-> NoDate]

\* the values config_output can leave in the trigger fields
OnlyLastNValues == {NoSize} \cup {SomeSize(n) : n \in {0, 1, 2, 5, SIZE_MAX - 1, SIZE_MAX}}
OutputFrequencies == {NoSize} \cup {SomeSize(n) : n \in (0..MaxOutFreq) \cup {10}}
OutputDescriptors == [only_last_n : OnlyLastNValues, frequency : OutputFrequencies,
                      specific_time : ConfiguredDates, specific_datetime : ConfiguredDates]

\* the arguments of should_output: small timestep numbers, 10 and 20, and those around 100
OutMaxTs == (0..MaxOutTs) \cup {100}
OutCurrentTs == (0..(MaxOutTs + 1)) \cup {10, 20} \cup (94..101)

\* mutation of only_last_n_trigger: strictly fewer than n timesteps left
only_last_n_trigger_strict(oi, max, cur, so) ==
    IF oi.only_last_n.engaged /\ size_sub(max, cur) < oi.only_last_n.value THEN TRUE ELSE so

\* if(only_last_n) { auto ts_left = max_ts - current_ts;
\*                   if( ts_left <= *only_last_n) should_output = true; }
only_last_n_trigger(oi, max, cur, so) ==
    IF oi.only_last_n.engaged /\ size_sub(max, cur) <= oi.only_last_n.value THEN TRUE ELSE so

\* current_ts % *frequency: the remainders a build produces, -1 standing for a trap.
\* The remainder by 0 is undefined behaviour: a trap (x86) or the dividend (ARM, RISC-V).
remainder(cur, f) == IF f = 0 THEN {cur, -1} ELSE {cur % f}

\* mutation of frequency_trigger: the comparison of the remainder with 0 inverted
frequency_trigger_nonzero(oi, rem, so) ==
    IF oi.frequency.engaged /\ rem # 0 THEN TRUE ELSE so

\* if(frequency) { if(current_ts % *frequency == 0) should_output = true; }
\* for the remainder rem
frequency_trigger(oi, rem, so) ==
    IF oi.frequency.engaged /\ rem = 0 THEN TRUE ELSE so

\* if(specific_time) { hours and minutes of the time of day equal: should_output = true; }
specific_time_trigger(oi, date, so) ==
    IF /\ oi.specific_time.engaged
       /\ date.hours = oi.specific_time.value.hours
       /\ date.minutes = oi.specific_time.value.minutes
    THEN TRUE ELSE so

\* mutation of specific_datetime_trigger: should_output is assigned the comparison
specific_datetime_trigger_assigned(oi, date, so) ==
    IF oi.specific_datetime.engaged THEN date = oi.specific_datetime.value ELSE so

\* if(specific_datetime) { if(_current_date == *specific_datetime) should_output = true; }
specific_datetime_trigger(oi, date, so) ==
    IF oi.specific_datetime.engaged /\ date = oi.specific_datetime.value THEN TRUE ELSE so

\* output_info::should_output, for the remainder rem of its frequency test
should_output(oi, max, cur, date, rem) ==
    specific_datetime_trigger(oi, date,
        specific_time_trigger(oi, date,
            frequency_trigger(oi, rem,
                only_last_n_trigger(oi, max, cur, FALSE))))

\* the state of the output descriptor when no output is configured
OutIdle ==
    /\ output = output_info
    /\ out_args = [max_ts |-> 0, current_ts |-> 0, date |-> [day |-> 1, hours |-> 0, minutes |-> 0]]
    /\ out_state = "idle"
    /\ out_ret = FALSE

\* core::config_output fills the triggers of the constructed descriptor; a trigger the
\* configuration does not name keeps the value the constructor gave it
config_output ==
    /\ out_state = "constructed"
    /\ \E d \in OutputDescriptors : output' = d
    /\ out_state' = "idle"
    /\ UNCHANGED <<out_args, out_ret, chk_vars, run_vars, sched_vars, life_vars>>

\* a call should_output(max, cur, date) on the descriptor
call_should_output ==
    /\ out_state = "idle"
    /\ \E max \in OutMaxTs, cur \in OutCurrentTs, date \in Dates :
         /\ out_args' = [max_ts |-> max, current_ts |-> cur, date |-> date]
         /\ \E rem \in (IF output.frequency.engaged
                          THEN remainder(cur, output.frequency.value) ELSE {0}) :
               IF rem = -1
               THEN out_state' = "trapped" /\ UNCHANGED out_ret
               ELSE /\ out_state' = "returned"
                    /\ out_ret' = should_output(output, max, cur, date, rem)
    /\ UNCHANGED <<output, chk_vars, run_vars, sched_vars, life_vars>>

\* the caller has used the result; the descriptor is evaluated again next timestep
output_done ==
    /\ out_state = "returned"
    /\ out_state' = "idle"
    /\ out_args' = [max_ts |-> 0, current_ts |-> 0, date |-> [day |-> 1, hours |-> 0, minutes |-> 0]]
    /\ out_ret' = FALSE
    /\ UNCHANGED <<output, chk_vars, run_vars, sched_vars, life_vars>>

InitOut ==
    /\ env = [p \in Procs |-> EnvUnset]
    /\ scheduler_info = [p \in Procs |-> hpc_scheduler_info]
    /\ checkpoint_opts = chkptOp
    /\ checkpoint_request_terminate = [p \in Procs |-> FALSE]
    /\ pc = [p \in Procs |-> "init"]
    /\ args = [current_ts |-> 0, is_last_ts |-> FALSE]
    /\ outoftime = [p \in Procs |-> 0]
    /\ global_outoftime = [p \in Procs |-> -1]
    /\ ret = [p \in Procs |-> FALSE]
    /\ collectives = [p \in Procs |-> 0]
    /\ max_ts = 0
    /\ current_ts = 0
    /\ checkpoints = [p \in Procs |-> {}]
    /\ module_inputs = [m \in 1..NumModules |-> {}]
    /\ graph = [x \in 1..2 |-> {}]
    /\ chunked_modules = [x \in 1..2 |-> <<>>]
    /\ core_state = [x \in 1..2 |-> "configured"]
    /\ output = output_info
    /\ out_args = [max_ts |-> 0, current_ts |-> 0, date |-> [day |-> 1, hours |-> 0, minutes |-> 0]]
    /\ out_state = "constructed"
    /\ out_ret = FALSE
    /\ LifeIdle

NextOut ==
    \/ config_output
    \/ call_should_output
    \/ output_done

SpecOut == InitOut /\ [][NextOut]_vars

\* ----------------------------------------------------------------------
\* Module graph and scheduler (spec.md sections 3, 4.1, 4.2)
\* ----------------------------------------------------------------------
\* modules in declaration order; module m produces the variable named m
Modules == 1..NumModules

\* two executions of the program on the same configuration
Executions == {1, 2}

\* the scheduler's state when no module is configured
SchedIdle ==
    /\ module_inputs = [m \in Modules |-> {}]
    /\ graph = [x \in Executions |-> {}]
    /\ chunked_modules = [x \in Executions |-> <<>>]
    /\ core_state = [x \in Executions |-> "configured"]

\* the graph builder: an edge from the producer of a variable to each module requiring it
Edges(inputs) == {e \in Modules \X Modules : e[1] \in inputs[e[2]]}

\* pairs joined by a path of two edges, one of R then one of S
Compose(R, S) == {e \in Modules \X Modules :
                    \E b \in Modules : <<e[1], b>> \in R /\ <<b, e[2]>> \in S}

RECURSIVE PathsUpTo(_, _)
\* pairs joined by a path of at most k edges
PathsUpTo(R, k) == IF k <= 1 THEN R
                   ELSE LET P == PathsUpTo(R, k - 1) IN P \cup Compose(P, R)

\* mutation of HasCycle: only a module requiring its own variable and two modules
\* requiring each other's are found
HasShortCycle(edges) == \E m \in Modules : <<m, m>> \in PathsUpTo(edges, 2)

\* the graph has a dependency cycle
HasCycle(edges) == \E m \in Modules : <<m, m>> \in PathsUpTo(edges, NumModules)

\* mutation of Frontier: one scheduled dependency is enough
FrontierAnyDependency(edges, scheduled, remaining) ==
    {m \in remaining :
        \/ \A e \in edges : e[2] # m
        \/ \E e \in edges : e[2] = m /\ e[1] \in scheduled}

\* mutation of Frontier: only the first module with all dependencies scheduled
FrontierFirstOnly(edges, scheduled, remaining) ==
    LET f == {m \in remaining : \A e \in edges : e[2] = m => e[1] \in scheduled}
    IN  {m \in f : \A n \in f : m <= n}

\* the current frontier: the remaining modules with all dependencies already scheduled
Frontier(edges, scheduled, remaining) ==
    {m \in remaining : \A e \in edges : e[2] = m => e[1] \in scheduled}

RECURSIVE DeclarationOrder(_)
\* the modules of S as a sequence in declaration order
DeclarationOrder(S) ==
    IF S = {} THEN <<>>
    ELSE LET m == CHOOSE x \in S : \A y \in S : x <= y
         IN  <<m>> \o DeclarationOrder(S \ {m})

\* mutation of TieBreak: the modules of a frontier come out in any order
TieBreakUnordered(S) ==
    {f \in [1..Cardinality(S) -> S] : \A i, j \in 1..Cardinality(S) : f[i] = f[j] => i = j}

\* the orders in which a frontier may be laid out in its chunk: declaration order
TieBreak(S) == {DeclarationOrder(S)}

RECURSIVE Schedules(_, _, _)
\* the chunk sequences frontier extraction yields: extract the frontier as one chunk
\* and remove it, until no module remains (or no frontier is left)
Schedules(edges, scheduled, remaining) ==
    LET f == Frontier(edges, scheduled, remaining)
    IN  IF remaining = {} \/ f = {} THEN {<<>>}
        ELSE {<<c>> \o rest : c \in TieBreak(f),
                               rest \in Schedules(edges, scheduled \cup f, remaining \ f)}

sched_unchanged == UNCHANGED <<chk_vars, run_vars, module_inputs, out_vars, life_vars>>

\* core::_determine_module_dep in execution x: builds the graph; a cycle is a fatal
\* configuration error
determine_module_dep(x) ==
    /\ core_state[x] = "configured"
    /\ LET edges == Edges(module_inputs)
       IN  IF HasCycle(edges)
           THEN /\ core_state' = [core_state EXCEPT ![x] = "config_error"]
                /\ UNCHANGED graph
           ELSE /\ graph' = [graph EXCEPT ![x] = edges]
                /\ core_state' = [core_state EXCEPT ![x] = "graph_built"]
    /\ UNCHANGED chunked_modules
    /\ sched_unchanged

\* core::_schedule_modules in execution x: partitions the modules into chunks
schedule_modules(x) ==
    /\ core_state[x] = "graph_built"
    /\ \E chunks \in Schedules(graph[x], {}, Modules) :
          chunked_modules' = [chunked_modules EXCEPT ![x] = chunks]
    /\ core_state' = [core_state EXCEPT ![x] = "scheduled"]
    /\ UNCHANGED graph
    /\ sched_unchanged

\* core::run in execution x: Configured -> Running, which requires a schedule; the
\* timesteps execute the chunks in order
run(x) ==
    /\ core_state[x] = "scheduled"
    /\ core_state' = [core_state EXCEPT ![x] = "running"]
    /\ UNCHANGED <<graph, chunked_modules>>
    /\ sched_unchanged

InitSched ==
    /\ env = [p \in Procs |-> EnvUnset]
    /\ scheduler_info = [p \in Procs |-> hpc_scheduler_info]
    /\ checkpoint_opts = chkptOp
    /\ checkpoint_request_terminate = [p \in Procs |-> FALSE]
    /\ pc = [p \in Procs |-> "init"]
    /\ args = [current_ts |-> 0, is_last_ts |-> FALSE]
    /\ outoftime = [p \in Procs |-> 0]
    /\ global_outoftime = [p \in Procs |-> -1]
    /\ ret = [p \in Procs |-> FALSE]
    /\ collectives = [p \in Procs |-> 0]
    /\ max_ts = 0
    /\ current_ts = 0
    /\ checkpoints = [p \in Procs |-> {}]
    /\ module_inputs \in [Modules -> SUBSET Modules]
    /\ graph = [x \in Executions |-> {}]
    /\ chunked_modules = [x \in Executions |-> <<>>]
    /\ core_state = [x \in Executions |-> "configured"]
    /\ OutIdle
    /\ LifeIdle

NextSched ==
    \/ \E x \in Executions : determine_module_dep(x)
    \/ \E x \in Executions : schedule_modules(x)
    \/ \E x \in Executions : run(x)

SpecSched == InitSched /\ [][NextSched]_vars

\* ----------------------------------------------------------------------
\* Specification of the checkpoint policy under arbitrary calls
\* ----------------------------------------------------------------------
Init ==
    /\ env \in [Procs -> EnvValues]
    /\ scheduler_info = [p \in Procs |-> hpc_scheduler_info]
    /\ checkpoint_opts \in CheckpointOptions
    /\ checkpoint_request_terminate = [p \in Procs |-> FALSE]
    /\ pc = [p \in Procs |-> "init"]
    /\ args = [current_ts |-> 0, is_last_ts |-> FALSE]
    /\ outoftime = [p \in Procs |-> 0]
    /\ global_outoftime = [p \in Procs |-> -1]
    /\ ret = [p \in Procs |-> FALSE]
    /\ collectives = [p \in Procs |-> 0]
    /\ max_ts = 0
    /\ current_ts = 0
    /\ checkpoints = [p \in Procs |-> {}]
    /\ SchedIdle
    /\ OutIdle
    /\ LifeIdle

Next ==
    \/ \E p \in Procs : detect(p)
    \/ call_should_checkpoint
    \/ \E p \in Procs : should_checkpoint(p)
    \/ all_reduce

Spec == Init /\ [][Next]_vars

\* the policies run under a job environment with scheduler job ids: checkpointing on or
\* off, on_last and a frequency set or not, every on_outta_time
DetectOptions == [do_checkpoint : BOOLEAN, on_last : {NoBool, SomeBool(TRUE)},
                  frequency : {NoSize, SomeSize(MaxFreq)}, on_outta_time : OptBool]

\* the program started in a job whose environment sets any of SLURM_JOB_ID, PBS_JOBID
\* and, per rank, CHM_WALLCLOCK_LIMIT
InitDetect ==
    /\ env \in [Procs -> EnvValues]
    /\ job_ids \in JobIds
    /\ scheduler_info = [p \in Procs |-> hpc_scheduler_info]
    /\ checkpoint_opts \in DetectOptions
    /\ checkpoint_request_terminate = [p \in Procs |-> FALSE]
    /\ pc = [p \in Procs |-> "init"]
    /\ args = [current_ts |-> 0, is_last_ts |-> FALSE]
    /\ outoftime = [p \in Procs |-> 0]
    /\ global_outoftime = [p \in Procs |-> -1]
    /\ ret = [p \in Procs |-> FALSE]
    /\ collectives = [p \in Procs |-> 0]
    /\ max_ts = 0
    /\ current_ts = 0
    /\ checkpoints = [p \in Procs |-> {}]
    /\ SchedIdle
    /\ OutIdle
    /\ elapsed = 0
    /\ threshold_reached = FALSE
    /\ shutdown = [p \in Procs |-> [clean_exit |-> FALSE, ended |-> FALSE, sentinel |-> FALSE]]

SpecDetect == InitDetect /\ [][Next]_vars

\* ----------------------------------------------------------------------
\* core::run: the time-stepping driver (spec.md section 4.3), every rank in lock-step
\* ----------------------------------------------------------------------
\* checkpoint frequencies configured for a run
RunFrequency == {NoSize} \cup {SomeSize(n) : n \in 0..MaxRunFreq}

\* is_last_ts as the driver passes it
is_last_timestep(ts, n) == ts = n - 1

\* every rank starts timestep current_ts: modules and outputs run (opaque here), then
\* the rank evaluates should_checkpoint(current_ts, is_last_ts, ...)
start_timestep ==
    /\ \A p \in Procs : pc[p] = "ready"
    /\ current_ts < max_ts
    /\ args' = [current_ts |-> current_ts, is_last_ts |-> is_last_timestep(current_ts, max_ts)]
    /\ pc' = [p \in Procs |-> "called"]
    /\ outoftime' = [p \in Procs |-> 0]
    /\ global_outoftime' = [p \in Procs |-> -1]
    /\ collectives' = [p \in Procs |-> 0]
    /\ UNCHANGED <<env, scheduler_info, checkpoint_opts, checkpoint_request_terminate, ret,
                   run_vars, sched_vars, out_vars>>

\* a timestep of the run, the clock left aside
run_timestep == start_timestep /\ UNCHANGED life_vars

\* the rank writes a checkpoint for the timestep when should_checkpoint returned true
write_checkpoints(p) ==
    IF ret[p] THEN checkpoints[p] \cup {current_ts} ELSE checkpoints[p]

\* every rank ends the timestep: it writes the checkpoint the policy asked for, then
\* stops if the policy requested termination or the clock reached the end, else goes on
end_timestep ==
    /\ \A p \in Procs : pc[p] = "returned"
    /\ checkpoints' = [p \in Procs |-> write_checkpoints(p)]
    /\ current_ts' = current_ts + 1
    /\ pc' = [p \in Procs |->
                IF checkpoint_request_terminate[p] THEN "terminated"
                ELSE IF current_ts + 1 >= max_ts THEN "done"
                ELSE "ready"]
    /\ UNCHANGED <<chk_vars_but_pc, max_ts, sched_vars, out_vars, life_vars>>

InitRun ==
    /\ env \in [Procs -> EnvValues]
    /\ scheduler_info = [p \in Procs |-> hpc_scheduler_info]
    /\ checkpoint_opts \in [do_checkpoint : BOOLEAN, on_last : OptBool,
                             frequency : RunFrequency, on_outta_time : OptBool]
    /\ checkpoint_request_terminate = [p \in Procs |-> FALSE]
    /\ pc = [p \in Procs |-> "init"]
    /\ args = [current_ts |-> 0, is_last_ts |-> FALSE]
    /\ outoftime = [p \in Procs |-> 0]
    /\ global_outoftime = [p \in Procs |-> -1]
    /\ ret = [p \in Procs |-> FALSE]
    /\ collectives = [p \in Procs |-> 0]
    /\ max_ts \in 1..MaxTimesteps
    /\ current_ts = 0
    /\ checkpoints = [p \in Procs |-> {}]
    /\ SchedIdle
    /\ OutIdle
    /\ LifeIdle

NextRun ==
    \/ \E p \in Procs : detect(p)
    \/ run_timestep
    \/ \E p \in Procs : should_checkpoint(p)
    \/ all_reduce
    \/ end_timestep

SpecRun == InitRun /\ [][NextRun]_vars

\* ----------------------------------------------------------------------
\* The life cycle of a run: the clock, abnormal termination and core::end
\* (spec.md sections 4.3, 4.5 and 6)
\* ----------------------------------------------------------------------
\* some rank with a limit is out of time when the clock reads t
OutOfTimeAt(t) ==
    \E p \in Procs : /\ scheduler_info[p].has_wallclock_limit
                      /\ local_outoftime(scheduler_info[p], t) = 1

\* a timestep of the run starts, the clock having advanced to t minutes; the history
\* records whether a rank is out of time at a timestep before the last one
run_timestep_clocked ==
    /\ start_timestep
    /\ \E t \in elapsed..MaxClock :
          /\ elapsed' = t
          /\ threshold_reached' =
                (threshold_reached \/ (current_ts < max_ts - 1 /\ OutOfTimeAt(t)))
    /\ UNCHANGED <<job_ids, shutdown>>

\* a module of rank p throws, or the rank receives an external abort, during the
\* timestep: the abnormal path attempts a final checkpoint if checkpointing is enabled
module_error(p) ==
    /\ pc[p] = "called"
    /\ pc' = [pc EXCEPT ![p] = "failed"]
    /\ checkpoints' = [checkpoints EXCEPT ![p] =
                          IF checkpoint_opts.do_checkpoint THEN @ \cup {current_ts} ELSE @]
    /\ UNCHANGED <<chk_vars_but_pc, max_ts, current_ts, sched_vars, out_vars, life_vars>>

\* mutation of clean_termination: any stop the policy decided counts as clean
clean_termination_any_stop(state) == state \in {"done", "terminated"}

\* the run of a rank ended cleanly: it reached the end timestamp without abort and
\* without the policy's request to terminate
clean_termination(state) == state = "done"

\* the rank's run ends with abort = true
aborting(state) == state \in {"failed", "config_error"}

\* core::end(abort) on rank p: the sentinel file is written on a clean exit; with
\* abort the MPI_Abort ends every other rank of comm_world where it stands
end(p) ==
    /\ pc[p] \in {"done", "terminated", "failed", "config_error"}
    /\ ~shutdown[p].ended
    /\ LET clean == clean_termination(pc[p])
       IN  shutdown' = [shutdown EXCEPT ![p] =
                          [clean_exit |-> clean, ended |-> TRUE, sentinel |-> clean]]
    /\ pc' = [q \in Procs |->
                IF q # p /\ aborting(pc[p]) /\ ~shutdown[q].ended THEN "killed" ELSE pc[q]]
    /\ UNCHANGED <<chk_vars_but_pc, run_vars, sched_vars, out_vars,
                   job_ids, elapsed, threshold_reached>>

\* the policies of the runs followed to their end: every frequency, on_last and
\* on_outta_time each enabled or not configured
LifeOptions == [do_checkpoint : BOOLEAN, on_last : {NoBool, SomeBool(TRUE)},
                frequency : OptFrequency, on_outta_time : {NoBool, SomeBool(TRUE)}]

InitLife ==
    /\ env \in [Procs -> EnvValues]
    /\ scheduler_info = [p \in Procs |-> hpc_scheduler_info]
    /\ checkpoint_opts \in LifeOptions
    /\ checkpoint_request_terminate = [p \in Procs |-> FALSE]
    /\ pc = [p \in Procs |-> "init"]
    /\ args = [current_ts |-> 0, is_last_ts |-> FALSE]
    /\ outoftime = [p \in Procs |-> 0]
    /\ global_outoftime = [p \in Procs |-> -1]
    /\ ret = [p \in Procs |-> FALSE]
    /\ collectives = [p \in Procs |-> 0]
    /\ max_ts \in 1..(MaxTs + 1)
    /\ current_ts = 0
    /\ checkpoints = [p \in Procs |-> {}]
    /\ SchedIdle
    /\ OutIdle
    /\ LifeIdle

NextLife ==
    \/ \E p \in Procs : detect(p)
    \/ run_timestep_clocked
    \/ \E p \in Procs : should_checkpoint_at(p, {elapsed})
    \/ all_reduce
    \/ end_timestep
    \/ \E p \in Procs : module_error(p)
    \/ \E p \in Procs : end(p)

SpecLife == InitLife /\ [][NextLife]_vars

\* ----------------------------------------------------------------------
\* Properties of should_checkpoint (specification Spec)
\* ----------------------------------------------------------------------
\* the rank has returned from the should_checkpoint call in progress
Returned(p) == pc[p] = "returned"

\* C1: every call of should_checkpoint performs the all_reduce collective exactly once,
\* whatever the options and arguments. (Violated: the collective sits behind the
\* early returns and the out-of-time guard.)
C1_CollectiveOnEveryCall ==
    \A p \in Procs : Returned(p) => collectives[p] = 1

\* C2: the termination flag is sticky: no step of any rank takes
\* checkpoint_request_terminate from true to false.
C2_TerminateSticky ==
    [][\A p \in Procs : checkpoint_request_terminate[p] => checkpoint_request_terminate'[p]]_vars

\* a rank whose flag was set by an earlier call has returned from a later call that
\* did not find the run out of time (another rule decided, or the consensus was false)
C2_Witness ==
    \E p \in Procs : Returned(p) /\ checkpoint_request_terminate[p] /\ global_outoftime[p] # 1

\* C3: when all ranks took part in the out-of-time consensus, the result is true on
\* every rank iff some local check was true; then every rank sets the flag and
\* returns true; and a consensus over all-false local checks changes no flag.
C3_ConsensusIsOr ==
    /\ [](\A p \in Procs : (Returned(p) /\ collectives[p] = 1) =>
             /\ ret[p] = (\E q \in Procs : outoftime[q] = 1)
             /\ global_outoftime[p] = (IF \E q \in Procs : outoftime[q] = 1 THEN 1 ELSE 0)
             /\ ((\E q \in Procs : outoftime[q] = 1) => checkpoint_request_terminate[p]))
    /\ [][((\A p \in Procs : pc[p] = "all_reduce" /\ pc'[p] = "returned")
            /\ (\A q \in Procs : outoftime[q] = 0))
           => checkpoint_request_terminate' = checkpoint_request_terminate]_vars

\* the consensus ran with one rank out of time and another not, and every rank
\* returned true with its flag set
C3_Witness ==
    /\ \A p \in Procs : Returned(p) /\ collectives[p] = 1 /\ ret[p]
                          /\ checkpoint_request_terminate[p]
    /\ \E p, q \in Procs : outoftime[p] = 1 /\ outoftime[q] = 0

\* C7 as stated: on the last timestep with on_last enabled should_checkpoint returns
\* true. (Violated when do_checkpoint is false: rule (1) returns false first.)
C7_OnLastAlways ==
    \A p \in Procs :
        (Returned(p) /\ args.is_last_ts
           /\ checkpoint_opts.on_last.engaged /\ checkpoint_opts.on_last.value)
        => ret[p]

\* C7 amended: with checkpointing enabled (do_checkpoint), on the last timestep with
\* on_last enabled should_checkpoint returns true for every current_ts, frequency,
\* on_outta_time and wall-clock state.
C7_OnLastWhenEnabled ==
    \A p \in Procs :
        (Returned(p) /\ args.is_last_ts /\ checkpoint_opts.do_checkpoint
           /\ checkpoint_opts.on_last.engaged /\ checkpoint_opts.on_last.value)
        => ret[p]

\* a last-timestep call returned true by the on_last rule although current_ts is no
\* multiple of the configured frequency and the rank has no wall-clock limit
C7_Witness ==
    \E p \in Procs :
        /\ Returned(p) /\ ret[p] /\ args.is_last_ts /\ checkpoint_opts.do_checkpoint
        /\ checkpoint_opts.on_last.engaged /\ checkpoint_opts.on_last.value
        /\ checkpoint_opts.frequency = SomeSize(2) /\ args.current_ts = 1
        /\ ~scheduler_info[p].has_wallclock_limit

\* C8: with a frequency set, and neither the on_last rule nor the out-of-time rule
\* applicable, should_checkpoint(0, ...) returns false for every frequency value.
C8_NoFrequencyCheckpointAtZero ==
    \A p \in Procs :
        (Returned(p) /\ args.current_ts = 0 /\ checkpoint_opts.frequency.engaged
           /\ ~on_last_rule(checkpoint_opts, args.is_last_ts)
           /\ ~outta_time_rule(checkpoint_opts, scheduler_info[p]))
        => ~ret[p]

\* checkpointing is enabled with a non-zero frequency, and the call for timestep 0
\* has returned false
C8_Witness ==
    \E p \in Procs :
        /\ Returned(p) /\ ~ret[p] /\ args.current_ts = 0
        /\ checkpoint_opts.do_checkpoint
        /\ checkpoint_opts.frequency.engaged /\ checkpoint_opts.frequency.value > 0
        /\ ~on_last_rule(checkpoint_opts, args.is_last_ts)
        /\ ~outta_time_rule(checkpoint_opts, scheduler_info[p])

\* ----------------------------------------------------------------------
\* Properties of the driver with the checkpoint policy (specification SpecRun)
\* ----------------------------------------------------------------------
\* checkpointing enabled with a frequency as its only trigger: on_last not enabled
\* and the out-of-time rule applicable on no rank
FrequencyOnly ==
    /\ checkpoint_opts.do_checkpoint
    /\ checkpoint_opts.frequency.engaged
    /\ ~(checkpoint_opts.on_last.engaged /\ checkpoint_opts.on_last.value)
    /\ \A p \in Procs : ~outta_time_rule(checkpoint_opts, scheduler_info[p])

\* the non-zero multiples of frequency f among the timesteps 0 .. n - 1
NonZeroMultiples(f, n) == {t \in 0..(n - 1) : t # 0 /\ f # 0 /\ t % f = 0}

\* C9: under a frequency-only policy every rank has written checkpoints exactly at the
\* non-zero multiples of the frequency among the timesteps executed so far; a finished
\* run of 10 timesteps with frequency 4 has written them exactly at timesteps 4 and 8.
C9_FrequencyCheckpoints ==
    FrequencyOnly =>
        \A p \in Procs :
            /\ checkpoints[p] = NonZeroMultiples(checkpoint_opts.frequency.value, current_ts)
            /\ (pc[p] = "done" /\ max_ts = 10 /\ checkpoint_opts.frequency.value = 4)
                  => checkpoints[p] = {4, 8}

\* a run of 10 timesteps with frequency 4 as its only trigger has finished on every
\* rank with the checkpoints of timesteps 4 and 8 written
C9_Witness ==
    /\ FrequencyOnly /\ max_ts = 10 /\ current_ts = 10
    /\ checkpoint_opts.frequency = SomeSize(4)
    /\ \A p \in Procs : pc[p] = "done" /\ checkpoints[p] = {4, 8}

\* ----------------------------------------------------------------------
\* Properties of the scheduler (specification SpecSched)
\* ----------------------------------------------------------------------
\* the chunks of execution x in which module m appears
ChunksOf(x, m) ==
    {i \in 1..Len(chunked_modules[x]) :
        \E j \in 1..Len(chunked_modules[x][i]) : chunked_modules[x][i][j] = m}

\* the execution has a schedule
Scheduled(x) == core_state[x] \in {"scheduled", "running"}

\* the configured modules have a dependency cycle: some non-empty set of modules in
\* which every module requires a variable produced inside the set
DependencyCycle ==
    \E S \in (SUBSET Modules) \ {{}} : \A m \in S : module_inputs[m] \cap S # {}

\* C4: the chunk partition of an acyclic module graph is a valid topological order:
\* every module appears exactly once, in exactly one chunk, and every producer of one
\* of a module's inputs is in a chunk of strictly smaller index.
C4_ChunksTopological ==
    \A x \in Executions :
        (Scheduled(x) /\ ~DependencyCycle) =>
            /\ \A m \in Modules :
                  /\ Cardinality(ChunksOf(x, m)) = 1
                  /\ \A i \in ChunksOf(x, m) :
                        Cardinality({j \in 1..Len(chunked_modules[x][i]) :
                                       chunked_modules[x][i][j] = m}) = 1
            /\ \A a, b \in Modules :
                  a \in module_inputs[b] =>
                      \A i \in ChunksOf(x, a), j \in ChunksOf(x, b) : i < j

\* a chain of three modules, declared against their dependency order, is scheduled
\* into three chunks
C4_Witness ==
    \E x \in Executions :
        /\ Scheduled(x)
        /\ module_inputs[1] = {2} /\ module_inputs[2] = {3} /\ module_inputs[3] = {}
        /\ chunked_modules[x] = << <<3>>, <<2>>, <<1>> >>

\* C5: a module graph with a dependency cycle is rejected during graph construction:
\* the execution never gets a graph, a chunk or a schedule, and never runs.
C5_CycleRejected ==
    \A x \in Executions :
        DependencyCycle =>
            /\ core_state[x] \in {"configured", "config_error"}
            /\ chunked_modules[x] = <<>>
            /\ graph[x] = {}

\* a configuration whose modules require each other's variables in a cycle through
\* all of them has been rejected with the configuration error
C5_Witness ==
    \E x \in Executions :
        /\ core_state[x] = "config_error"
        /\ \A m \in Modules : module_inputs[m] = {(m % NumModules) + 1}

OnlyLastNOnly ==
    /\ output.only_last_n.engaged
    /\ ~output.frequency.engaged
    /\ ~output.specific_time.engaged
    /\ ~output.specific_datetime.engaged

\* C10 as stated: with only_last_n = N as the only trigger, should_output is true
\* exactly when max_ts - N <= current_ts <= max_ts. (Violated when current_ts > max_ts
\* and N is within current_ts - max_ts of SIZE_MAX: the unsigned difference wraps.)
C10_OnlyLastNExact ==
    (OnlyLastNOnly /\ out_state = "returned") =>
        out_ret = (/\ out_args.max_ts - output.only_last_n.value <= out_args.current_ts
                   /\ out_args.current_ts <= out_args.max_ts)

\* C10 amended: with only_last_n = N as the only trigger and current_ts <= max_ts,
\* should_output is true exactly when max_ts - N <= current_ts; for max_ts = 100 and
\* N = 5 it is true exactly for current_ts in 95..100. Past max_ts the difference
\* wraps and the trigger fires exactly when N >= 2^SizeBits - (current_ts - max_ts).
C10_OnlyLastNUpToMax ==
    (OnlyLastNOnly /\ out_state = "returned") =>
        /\ out_args.current_ts <= out_args.max_ts =>
              out_ret = (out_args.max_ts - output.only_last_n.value <= out_args.current_ts)
        /\ out_args.current_ts > out_args.max_ts =>
              out_ret = (output.only_last_n.value >=
                            SizeMod - (out_args.current_ts - out_args.max_ts))
        /\ (out_args.max_ts = 100 /\ output.only_last_n.value = 5) =>
              out_ret = (out_args.current_ts \in 95..100)

\* with max_ts = 100 and only_last_n = 5 as the only trigger, the call for
\* current_ts = 95 has returned true
C10_Witness ==
    /\ OnlyLastNOnly /\ out_state = "returned" /\ out_ret
    /\ output.only_last_n.value = 5
    /\ out_args.max_ts = 100 /\ out_args.current_ts = 95

\* ----------------------------------------------------------------------
\* C11: the frequency trigger of an output descriptor
\* ----------------------------------------------------------------------
\* cur is a multiple of f
IsMultiple(cur, f) == \E k \in 0..cur : cur = k * f

\* frequency is the only trigger of the descriptor
OutputFrequencyOnly ==
    /\ output.frequency.engaged
    /\ ~output.only_last_n.engaged
    /\ ~output.specific_time.engaged
    /\ ~output.specific_datetime.engaged

\* C11: with frequency = F configured, a should_output call that returns has returned
\* true at every current_ts that is a multiple of F, 0 included, and with frequency as
\* the only trigger it has returned false at every other current_ts; for F = 10 it is
\* true at 0, 10, 20 and 100 and false at 1, 95 and 101.
C11_FrequencyMultiples ==
    (out_state = "returned" /\ output.frequency.engaged) =>
        /\ IsMultiple(out_args.current_ts, output.frequency.value) => out_ret
        /\ (OutputFrequencyOnly /\ ~IsMultiple(out_args.current_ts, output.frequency.value))
              => ~out_ret
        /\ (OutputFrequencyOnly /\ output.frequency.value = 10) =>
              out_ret = (out_args.current_ts \in {0, 10, 20, 100})

\* with frequency = 10 as the only trigger, the call for current_ts = 20 has returned true
C11_Witness ==
    /\ OutputFrequencyOnly /\ output.frequency.value = 10
    /\ out_state = "returned" /\ out_ret
    /\ out_args.current_ts = 20

\* ----------------------------------------------------------------------
\* C12: the output triggers are OR-combined
\* ----------------------------------------------------------------------
\* the configured only_last_n trigger matches: at most n timesteps left, in size_t
OnlyLastNMatches ==
    /\ output.only_last_n.engaged
    /\ size_sub(out_args.max_ts, out_args.current_ts) <= output.only_last_n.value

\* the configured frequency trigger matches
FrequencyMatches ==
    /\ output.frequency.engaged
    /\ IsMultiple(out_args.current_ts, output.frequency.value)

\* the configured specific_time trigger matches: same time of day
SpecificTimeMatches ==
    /\ output.specific_time.engaged
    /\ out_args.date.hours = output.specific_time.value.hours
    /\ out_args.date.minutes = output.specific_time.value.minutes

\* the configured specific_datetime trigger matches: same date and time
SpecificDatetimeMatches ==
    /\ output.specific_datetime.engaged
    /\ out_args.date = output.specific_datetime.value

\* no trigger of the descriptor is configured
NoTriggerConfigured ==
    /\ ~output.only_last_n.engaged
    /\ ~output.frequency.engaged
    /\ ~output.specific_time.engaged
    /\ ~output.specific_datetime.engaged

\* C12: a should_output call that returns has returned true if and only if at least
\* one configured trigger matches, for every max_ts, current_ts, date and every subset
\* of configured triggers; with no trigger configured it has returned false.
C12_TriggersOrCombined ==
    out_state = "returned" =>
        /\ out_ret = (\/ OnlyLastNMatches
                      \/ FrequencyMatches
                      \/ SpecificTimeMatches
                      \/ SpecificDatetimeMatches)
        /\ NoTriggerConfigured => ~out_ret

\* a call has returned true on the match of only_last_n although the three triggers
\* evaluated after it are configured and do not match
C12_Witness ==
    /\ out_state = "returned" /\ out_ret
    /\ OnlyLastNMatches
    /\ output.frequency.engaged /\ ~FrequencyMatches
    /\ output.specific_time.engaged /\ ~SpecificTimeMatches
    /\ output.specific_datetime.engaged /\ ~SpecificDatetimeMatches

\* ----------------------------------------------------------------------
\* C20: the default only_last_n of a constructed output descriptor
\* ----------------------------------------------------------------------
\* C20: the constructed descriptor has only_last_n engaged with SIZE_MAX, and while
\* only_last_n keeps that value a should_output call with current_ts <= max_ts that
\* returns has returned true, whatever the other three triggers are set to.
C20_DefaultOnlyLastN ==
    /\ out_state = "constructed" => output.only_last_n = SomeSize(SIZE_MAX)
    /\ (/\ out_state = "returned"
        /\ output.only_last_n = SomeSize(SIZE_MAX)
        /\ out_args.current_ts <= out_args.max_ts) => out_ret

\* only_last_n still has its default, the other three triggers are configured and none
\* of them matches, and the call for current_ts = 1 of max_ts = 3 has returned true
C20_Witness ==
    /\ out_state = "returned" /\ out_ret
    /\ output.only_last_n = SomeSize(SIZE_MAX)
    /\ out_args.current_ts = 1 /\ out_args.max_ts = 3
    /\ output.frequency.engaged /\ ~FrequencyMatches
    /\ output.specific_time.engaged /\ ~SpecificTimeMatches
    /\ output.specific_datetime.engaged /\ ~SpecificDatetimeMatches

\* ----------------------------------------------------------------------
\* C13: checkpointing disabled
\* ----------------------------------------------------------------------
\* C13: with do_checkpoint = false, every should_checkpoint call that has returned has
\* returned false, whatever current_ts, is_last_ts, on_last, frequency and
\* on_outta_time are, and no step changes checkpoint_request_terminate.
C13_DisabledNeverCheckpoints ==
    /\ [](~checkpoint_opts.do_checkpoint =>
            \A p \in Procs : pc[p] = "returned" => ~ret[p])
    /\ [][~checkpoint_opts.do_checkpoint =>
            checkpoint_request_terminate' = checkpoint_request_terminate]_vars

\* checkpointing is disabled, every rule of the policy would fire (last timestep with
\* on_last, a multiple of the frequency, on_outta_time with a limit detected), and
\* the call has returned false on rank p
C13_Witness ==
    \E p \in Procs :
        /\ ~checkpoint_opts.do_checkpoint
        /\ checkpoint_opts.on_last = SomeBool(TRUE) /\ args.is_last_ts
        /\ checkpoint_opts.frequency = SomeSize(1) /\ args.current_ts = 2
        /\ checkpoint_opts.on_outta_time = SomeBool(TRUE)
        /\ scheduler_info[p].has_wallclock_limit
        /\ pc[p] = "returned" /\ ~ret[p]

\* ----------------------------------------------------------------------
\* C14: a malformed CHM_WALLCLOCK_LIMIT
\* ----------------------------------------------------------------------
\* C14: on a rank whose CHM_WALLCLOCK_LIMIT is present but not a duration, the detector
\* ends in a configuration error and never leaves the rank ready to run; the budget
\* stays as constructed (has_wallclock_limit false, max_wallclock 0); and no timestep
\* of the run is executed: no rank enters should_checkpoint, current_ts stays 0 and no
\* checkpoint is written.
C14_MalformedOverrideFails ==
    \A p \in Procs :
        env[p].kind = "malformed" =>
            /\ pc[p] \in {"init", "config_error"}
            /\ ~scheduler_info[p].has_wallclock_limit
            /\ scheduler_info[p].max_wallclock = 0
            /\ current_ts = 0
            /\ \A q \in Procs : /\ pc[q] \in {"init", "ready", "config_error"}
                                 /\ checkpoints[q] = {}

\* the detector of a rank with a malformed override has failed with the configuration
\* error while every other rank has detected its budget and is ready
C14_Witness ==
    \E p \in Procs :
        /\ env[p].kind = "malformed" /\ pc[p] = "config_error"
        /\ \A q \in Procs \ {p} : env[q].kind = "duration" /\ pc[q] = "ready"

\* ----------------------------------------------------------------------
\* C19: the wall-clock limit comes from CHM_WALLCLOCK_LIMIT only
\* ----------------------------------------------------------------------
\* C19: once detect() has run on a rank, has_wallclock_limit is true if and only if
\* CHM_WALLCLOCK_LIMIT is present and well-formed, whatever SLURM_JOB_ID and PBS_JOBID
\* are; and a rank without a limit never reaches the wall-clock test of
\* should_checkpoint: it never enters the all_reduce, completes no collective, and
\* its checkpoint_request_terminate stays false.
C19_LimitOnlyFromOverride ==
    \A p \in Procs :
        /\ pc[p] # "init" =>
              scheduler_info[p].has_wallclock_limit = (env[p].kind = "duration")
        /\ ~scheduler_info[p].has_wallclock_limit =>
              /\ pc[p] # "all_reduce"
              /\ outoftime[p] = 0
              /\ collectives[p] = 0
              /\ ~checkpoint_request_terminate[p]

\* in a job with both SLURM_JOB_ID and PBS_JOBID set and no CHM_WALLCLOCK_LIMIT on rank
\* p, the rank has no limit and its should_checkpoint call with checkpointing and
\* on_outta_time enabled has returned false
C19_Witness ==
    \E p \in Procs :
        /\ job_ids.SLURM_JOB_ID /\ job_ids.PBS_JOBID
        /\ env[p].kind = "unset"
        /\ ~scheduler_info[p].has_wallclock_limit
        /\ checkpoint_opts.do_checkpoint
        /\ checkpoint_opts.on_outta_time = SomeBool(TRUE)
        /\ pc[p] = "returned" /\ ~ret[p]

\* ----------------------------------------------------------------------
\* C17: no distributed inconsistency
\* ----------------------------------------------------------------------
\* C17: for ranks evaluating should_checkpoint for the same timestep with the same
\* options, also when some detected a wall-clock limit and others did not: no rank is
\* left in the all_reduce while another rank has returned from the same call without
\* entering it (the rank in the collective would block forever), and once every rank
\* has returned they hold the same decision and the same termination flag. (Calls
\* that trap on a frequency of 0 are left aside.)
C17_NoDistributedInconsistency ==
    (\A r \in Procs : pc[r] # "trapped") =>
        /\ ~(\E p, q \in Procs : pc[p] = "all_reduce" /\ pc[q] = "returned")
        /\ (\A p \in Procs : pc[p] = "returned") =>
              \A p, q \in Procs :
                  /\ ret[p] = ret[q]
                  /\ checkpoint_request_terminate[p] = checkpoint_request_terminate[q]

\* ----------------------------------------------------------------------
\* C16: the schedule has maximal parallelism
\* ----------------------------------------------------------------------
RECURSIVE ChainLength(_)
\* the number of edges of the longest dependency chain ending at module m (of an
\* acyclic configuration)
ChainLength(m) ==
    IF module_inputs[m] = {} THEN 0
    ELSE 1 + Max({ChainLength(a) : a \in module_inputs[m]})

\* C16: in the schedule of an acyclic module graph every module is in the chunk whose
\* index (from 0) is the length of its longest dependency chain, the earliest chunk
\* with all its dependencies in strictly earlier chunks; chunk 0 holds exactly the
\* modules with no dependency; with A and B independent and C depending on both, A
\* and B are in chunk 0 and C is in chunk 1.
C16_MaximalParallelism ==
    \A x \in Executions :
        (Scheduled(x) /\ ~DependencyCycle) =>
            /\ \A m \in Modules : ChunksOf(x, m) = {ChainLength(m) + 1}
            /\ \A m \in Modules : (1 \in ChunksOf(x, m)) = (module_inputs[m] = {})
            /\ (module_inputs[1] = {} /\ module_inputs[2] = {} /\ module_inputs[3] = {1, 2})
                  => /\ ChunksOf(x, 1) = {1}
                     /\ ChunksOf(x, 2) = {1}
                     /\ ChunksOf(x, 3) = {2}

\* modules 1 and 2 are independent and module 3 depends on both; the schedule has put
\* 1 and 2 together in the first chunk and 3 in the second
C16_Witness ==
    \E x \in Executions :
        /\ Scheduled(x)
        /\ module_inputs[1] = {} /\ module_inputs[2] = {} /\ module_inputs[3] = {1, 2}
        /\ ChunksOf(x, 1) = {1} /\ ChunksOf(x, 2) = {1} /\ ChunksOf(x, 3) = {2}

C18_OutOfTimeForcesStop ==
    (/\ threshold_reached
     /\ checkpoint_opts.do_checkpoint
     /\ checkpoint_opts.on_outta_time = SomeBool(TRUE)
     /\ \A p \in Procs : scheduler_info[p].has_wallclock_limit)
        => \A q \in Procs : pc[q] # "done"

====
